---- MODULE Spec2Model ----
(***************************************************************************)
(* Model of src/src/component.py: the CNB exchange-rates extractor.        *)
(* Component.run is modelled step by step (pc is the position in run):     *)
(* output-name check, date resolution, currency resolution, the call of    *)
(* client.get_rates, the CSV / manifest / state writes.                    *)
(*                                                                         *)
(* Calendar dates are proleptic Gregorian ordinals (date.toordinal()), so  *)
(* date - timedelta(days=i) is integer subtraction and (a - b).days is the *)
(* integer difference.  A date string is the triple of numeric fields of a *)
(* text shaped like YYYY-MM-DD, or << >> for a text of any other shape.    *)
(* Text that the code splits or prefix-tests (the parameter names) is a    *)
(* sequence of one-character strings.                                      *)
(***************************************************************************)
EXTENDS Integers, Sequences, FiniteSets, TLC

VARIABLES pc, params, today, dates_list, warnings, error,
          selected_currency, idx, tries, rates, csv, calls

vars == <<pc, params, today, dates_list, warnings, error,
          selected_currency, idx, tries, rates, csv, calls>>

(* ------------------------------ bounds -------------------------------- *)

\* Custom-range strings name days 2023-12-30 .. 2024-01-MaxDay (and some
\* that are no calendar day).
MaxDay == 3

\* The run's "today" is one of 2024-01-01 .. 2024-01-(1 + MaxTodayOffset).
MaxTodayOffset == 1

(* ----------------------------- constants ------------------------------ *)

REQUEST_TRIES == 10

MSG_NO_NAME == "You have to specify a name for the output table!"
MSG_FROM_GE_TO == "\"Date from\" is higher or equal to date to!"
MSG_FROM_FUTURE == "\"Date from\" is in the future!"
MSG_CLAMP == "For \"Date to\" you selected a day in the future! Therefore, \"Date to\" was set to today's day."
MSG_BAD_DATES == "Dates not specified correctly for custom date range!"
MSG_NO_CURRENCY == "No currency was selected!"
MSG_NOT_FETCHED == "Data were not fetched!"

NoError == ""

MODE_TODAY == "Current day (currently declared rates)"
MODE_TODAY_AND_YESTERDAY == "Current day and yesterday"
MODE_WEEK == "Week"
MODE_CUSTOM == "Custom date range"

file_header == <<"date", "country", "currency", "amount", "code", "rate">>

(* --------------------------- calendar dates --------------------------- *)

IsLeap(y) == (y % 4 = 0) /\ ((y % 100 # 0) \/ (y % 400 = 0))

DaysInMonth(y, m) ==
    IF m = 2 THEN (IF IsLeap(y) THEN 29 ELSE 28)
    ELSE IF m \in {4, 6, 9, 11} THEN 30 ELSE 31

DaysBeforeYear(y) ==
    (y - 1) * 365 + ((y - 1) \div 4) - ((y - 1) \div 100) + ((y - 1) \div 400)

RECURSIVE DaysBeforeMonth(_, _)
DaysBeforeMonth(y, m) ==
    IF m <= 1 THEN 0 ELSE DaysBeforeMonth(y, m - 1) + DaysInMonth(y, m - 1)

ToOrdinal(y, m, d) == DaysBeforeYear(y) + DaysBeforeMonth(y, m) + d

\* datetime.strptime(s, '%Y-%m-%d').date(): ok = FALSE stands for ValueError.
Strptime(s) ==
    IF /\ Len(s) = 3
       /\ s[1] \in 1..9999
       /\ s[2] \in 1..12
       /\ s[3] \in 1..DaysInMonth(s[1], s[2])
    THEN [ok |-> TRUE, date |-> ToOrdinal(s[1], s[2], s[3])]
    ELSE [ok |-> FALSE, date |-> 0]

Min(a, b) == IF a <= b THEN a ELSE b

(* ------------------------- date range setters ------------------------- *)

\* What a setter leaves behind: the list, the exception raised (NoError when
\* it returns normally) and the warnings it logged.
Outcome(list, raised, logged) == [list |-> list, raised |-> raised, logged |-> logged]

SetDateRangeAscending(dates, day, days) ==
    dates \o [i \in 1..days |-> day + (i - 1)]

SetDateRange(dates, day, days) ==
    dates \o [i \in 1..days |-> day - (i - 1)]

SetToday(dates, day) == Outcome(SetDateRange(dates, day, 1), NoError, <<>>)

SetTodayAndYesterday(dates, day) == Outcome(SetDateRange(dates, day, 2), NoError, <<>>)

SetWeek(dates, day) == Outcome(SetDateRange(dates, day, 7), NoError, <<>>)

\* range(n) is empty for n <= 0.
CustomSpan(day, date_from, date_to) ==
    LET n == (Min(date_to, day) - date_from) + 1
    IN  IF n > 0 THEN n ELSE 0

SetCustomDateRangeOpenEnd(dates, day, date_from, date_to) ==
    IF date_from >= date_to THEN Outcome(dates, MSG_FROM_GE_TO, <<>>)
    ELSE IF date_from > day THEN Outcome(dates, MSG_FROM_FUTURE, <<>>)
    ELSE Outcome(dates \o [i \in 1..(CustomSpan(day, date_from, date_to) - 1)
                               |-> date_from + (i - 1)],
                 NoError,
                 IF date_to > day THEN <<MSG_CLAMP>> ELSE <<>>)

SetCustomDateRangeNoClamp(dates, day, date_from, date_to) ==
    IF date_from >= date_to THEN Outcome(dates, MSG_FROM_GE_TO, <<>>)
    ELSE IF date_from > day THEN Outcome(dates, MSG_FROM_FUTURE, <<>>)
    ELSE Outcome(dates \o [i \in 1..((date_to - date_from) + 1) |-> date_from + (i - 1)],
                 NoError,
                 IF date_to > day THEN <<MSG_CLAMP>> ELSE <<>>)

SetCustomDateRangeFutureFirst(dates, day, date_from, date_to) ==
    IF date_from > day THEN Outcome(dates, MSG_FROM_FUTURE, <<>>)
    ELSE IF date_from >= date_to THEN Outcome(dates, MSG_FROM_GE_TO, <<>>)
    ELSE Outcome(dates \o [i \in 1..CustomSpan(day, date_from, date_to)
                               |-> date_from + (i - 1)],
                 NoError,
                 IF date_to > day THEN <<MSG_CLAMP>> ELSE <<>>)

SetCustomDateRangeAllowEqual(dates, day, date_from, date_to) ==
    IF date_from > date_to THEN Outcome(dates, MSG_FROM_GE_TO, <<>>)
    ELSE IF date_from > day THEN Outcome(dates, MSG_FROM_FUTURE, <<>>)
    ELSE Outcome(dates \o [i \in 1..CustomSpan(day, date_from, date_to)
                               |-> date_from + (i - 1)],
                 NoError,
                 IF date_to > day THEN <<MSG_CLAMP>> ELSE <<>>)

SetCustomDateRange(dates, day, date_from, date_to) ==
    IF date_from >= date_to THEN Outcome(dates, MSG_FROM_GE_TO, <<>>)
    ELSE IF date_from > day THEN Outcome(dates, MSG_FROM_FUTURE, <<>>)
    ELSE Outcome(dates \o [i \in 1..CustomSpan(day, date_from, date_to)
                               |-> date_from + (i - 1)],
                 NoError,
                 IF date_to > day THEN <<MSG_CLAMP>> ELSE <<>>)

\* The keys of the setters dictionary; .get() of any other key is None.
DatesSetterKeys == {MODE_TODAY, MODE_TODAY_AND_YESTERDAY, MODE_WEEK, MODE_CUSTOM}

GetDatesSetter(key) == IF key \in DatesSetterKeys THEN key ELSE "None"


RunSetter(setter, dates, day, date_from, date_to) ==
    CASE setter = MODE_TODAY -> SetToday(dates, day)
      [] setter = MODE_TODAY_AND_YESTERDAY -> SetTodayAndYesterday(dates, day)
      [] setter = MODE_WEEK -> SetWeek(dates, day)
      [] setter = MODE_CUSTOM -> SetCustomDateRange(dates, day, date_from, date_to)

(* ------------------------ date resolution in run ---------------------- *)

\* A variant whose except clause also catches the setter's UserException.
ResolveDatesCatchAll(p, day) ==
    LET date_action == GetDatesSetter(p.dates)
    IN  IF date_action = "None" THEN Outcome(<<>>, NoError, <<>>)
        ELSE IF p.dates = MODE_CUSTOM
        THEN LET f == Strptime(p.dependent_date_from)
                 t == Strptime(p.dependent_date_to)
             IN  IF ~f.ok \/ ~t.ok THEN Outcome(<<>>, MSG_BAD_DATES, <<>>)
                 ELSE LET o == RunSetter(date_action, <<>>, day, f.date, t.date)
                      IN  IF o.raised # NoError
                          THEN Outcome(o.list, MSG_BAD_DATES, o.logged)
                          ELSE o
        ELSE RunSetter(date_action, <<>>, day, 0, 0)

\* Lines 105-118: dates_list = [] is filled by the setter the mode selects.
\* UserException is no ValueError, so what the setter raises passes the
\* except clause unchanged.
ResolveDates(p, day) ==
    LET date_action == GetDatesSetter(p.dates)
    IN  IF date_action = "None" THEN Outcome(<<>>, NoError, <<>>)
        ELSE IF p.dates = MODE_CUSTOM
        THEN LET f == Strptime(p.dependent_date_from)
                 t == Strptime(p.dependent_date_to)
             IN  IF ~f.ok \/ ~t.ok THEN Outcome(<<>>, MSG_BAD_DATES, <<>>)
                 ELSE RunSetter(date_action, <<>>, day, f.date, t.date)
        ELSE RunSetter(date_action, <<>>, day, 0, 0)

(* ---------------------- currency resolution in run -------------------- *)

Text_select_curr == <<"s","e","l","e","c","t","_","c","u","r","r">>
USD == <<"U","S","D">>
EUR == <<"E","U","R">>
Key_select_curr_USD == Text_select_curr \o <<"_">> \o USD
Key_select_curr_EUR == Text_select_curr \o <<"_">> \o EUR
Key_file_name == <<"f","i","l","e","_","n","a","m","e">>
Key_incremental == <<"i","n","c","r","e","m","e","n","t","a","l">>
Key_dates == <<"d","a","t","e","s">>
Key_currency == <<"c","u","r","r","e","n","c","y">>

\* The parameter names in the order of the configuration.
ParamKeys == <<Key_file_name, Key_incremental, Key_dates, Key_currency,
               Key_select_curr_USD, Key_select_curr_EUR>>

SelectKeys == {Key_select_curr_USD, Key_select_curr_EUR}

\* str.startswith
StartsWith(s, prefix) ==
    Len(s) >= Len(prefix) /\ SubSeq(s, 1, Len(prefix)) = prefix

\* str.split(sep) for a one-character separator
RECURSIVE Split(_, _)
Split(s, sep) ==
    IF \A i \in 1..Len(s) : s[i] # sep THEN <<s>>
    ELSE LET i == CHOOSE k \in 1..Len(s) :
                      s[k] = sep /\ \A j \in 1..(k - 1) : s[j] # sep
         IN  <<SubSeq(s, 1, i - 1)>> \o Split(SubSeq(s, i + 1, Len(s)), sep)

\* Python truth value of a parameter value, written as its literal.
PyValues == {"True", "False", "None"}
Truthy(v) == v \notin {"False", "None", "0", "''"}

\* selected_currency: none = TRUE is Python's None, else the list of codes.
SelectedCurrencyAnyFlag(p) ==
    IF p.currency = "All" THEN [none |-> TRUE, codes |-> <<>>]
    ELSE LET Keep(k) == StartsWith(k, Text_select_curr)
             kept == SelectSeq(ParamKeys, Keep)
         IN  [none |-> FALSE,
              codes |-> [i \in 1..Len(kept) |-> Split(kept[i], "_")[3]]]

SelectedCurrency(p) ==
    IF p.currency = "All" THEN [none |-> TRUE, codes |-> <<>>]
    ELSE LET Keep(k) == StartsWith(k, Text_select_curr) /\ Truthy(p.select[k])
             kept == SelectSeq(ParamKeys, Keep)
         IN  [none |-> FALSE,
              codes |-> [i \in 1..Len(kept) |-> Split(kept[i], "_")[3]]]

\* selected_currency == []
IsEmptyList(sel) == ~sel.none /\ sel.codes = <<>>

(* ------------------------------- inputs ------------------------------- *)

DateStrings ==
    {<<2023, 12, d>> : d \in 30..32} \cup {<<2024, 1, d>> : d \in 0..MaxDay}
        \cup {<<2024, 13, 1>>, <<>>}

Todays == {ToOrdinal(2024, 1, 1) + k : k \in 0..MaxTodayOffset}

Modes == DatesSetterKeys \cup {"Month"}

ParamSpace ==
    {p \in [file_name : {"", "rates"},
            dates : Modes,
            dependent_date_from : DateStrings,
            dependent_date_to : DateStrings,
            currency : {"All", "Selected"},
            select : [SelectKeys -> PyValues]] :
        p.dates # MODE_CUSTOM =>
            (p.dependent_date_from = <<>> /\ p.dependent_date_to = <<>>)}

(* ---------------------------- the feed client ------------------------- *)

\* The codes of the feed's lines, in feed order.
FeedCodes == <<USD, EUR>>

\* The rows get_rates adds for one date whose feed was fetched.
RowsFor(day, sel) ==
    LET Keep(c) == sel.none \/ \E i \in 1..Len(sel.codes) : sel.codes[i] = c
        kept == SelectSeq(FeedCodes, Keep)
    IN  [i \in 1..Len(kept) |-> [date |-> day, code |-> kept[i]]]

(* ------------------------------ the run ------------------------------- *)

Init ==
    /\ pc = "start"
    /\ params \in ParamSpace
    /\ today \in Todays
    /\ dates_list = <<>>
    /\ warnings = <<>>
    /\ error = NoError
    /\ selected_currency = [none |-> TRUE, codes |-> <<>>]
    /\ idx = 0
    /\ tries = 0
    /\ rates = <<>>
    /\ csv = <<>>
    /\ calls = <<>>

\* Lines 93-98: the output table needs a name.
CheckFileName ==
    /\ pc = "start"
    /\ IF params.file_name = ""
       THEN pc' = "failed" /\ error' = MSG_NO_NAME
       ELSE pc' = "dates" /\ error' = error
    /\ UNCHANGED <<params, today, dates_list, warnings, selected_currency,
                   idx, tries, rates, csv, calls>>

\* Lines 105-118.
RunResolveDates ==
    /\ pc = "dates"
    /\ LET o == ResolveDates(params, today)
       IN  /\ dates_list' = o.list
           /\ warnings' = warnings \o o.logged
           /\ error' = o.raised
           /\ pc' = IF o.raised = NoError THEN "currency" ELSE "failed"
    /\ UNCHANGED <<params, today, selected_currency, idx, tries, rates, csv, calls>>

\* The empty-selection test moved behind the fetch.
RunResolveCurrencyNoCheck ==
    /\ pc = "currency"
    /\ selected_currency' = SelectedCurrency(params)
    /\ pc' = "fetch"
    /\ error' = IF IsEmptyList(SelectedCurrency(params)) THEN MSG_NO_CURRENCY ELSE error
    /\ UNCHANGED <<params, today, dates_list, warnings, idx, tries, rates, csv, calls>>

\* Lines 120-125.
RunResolveCurrency ==
    /\ pc = "currency"
    /\ selected_currency' = SelectedCurrency(params)
    /\ IF IsEmptyList(SelectedCurrency(params))
       THEN pc' = "failed" /\ error' = MSG_NO_CURRENCY
       ELSE pc' = "fetch" /\ error' = error
    /\ UNCHANGED <<params, today, dates_list, warnings, idx, tries, rates, csv, calls>>

\* Line 129: client.get_rates(dates_list, today, ..., selected_currency) is entered.
GetRatesCall ==
    /\ pc = "fetch"
    /\ calls' = Append(calls, "get_rates")
    /\ idx' = 1
    /\ tries' = 0
    /\ rates' = <<>>
    /\ pc' = "fetching"
    /\ UNCHANGED <<params, today, dates_list, warnings, error, selected_currency, csv>>

\* One fetch attempt for the current date fails; after REQUEST_TRIES failed
\* attempts the date is given up and contributes no row.
FetchFail ==
    /\ pc = "fetching"
    /\ idx <= Len(dates_list)
    /\ tries < REQUEST_TRIES
    /\ IF tries + 1 = REQUEST_TRIES
       THEN idx' = idx + 1 /\ tries' = 0
       ELSE idx' = idx /\ tries' = tries + 1
    /\ UNCHANGED <<pc, params, today, dates_list, warnings, error,
                   selected_currency, rates, csv, calls>>

\* One fetch attempt for the current date succeeds: its rows, filtered by the
\* selected codes, are appended.
FetchOk ==
    /\ pc = "fetching"
    /\ idx <= Len(dates_list)
    /\ tries < REQUEST_TRIES
    /\ rates' = rates \o RowsFor(dates_list[idx], selected_currency)
    /\ idx' = idx + 1
    /\ tries' = 0
    /\ UNCHANGED <<pc, params, today, dates_list, warnings, error,
                   selected_currency, csv, calls>>

\* get_rates returns once every date was processed.
GetRatesReturn ==
    /\ pc = "fetching"
    /\ idx > Len(dates_list)
    /\ pc' = "write"
    /\ UNCHANGED <<params, today, dates_list, warnings, error,
                   selected_currency, idx, tries, rates, csv, calls>>

\* The header row is written whether or not there are rows.
WriteOutputAlways ==
    /\ pc = "write"
    /\ csv' = <<file_header>> \o rates
    /\ calls' = Append(calls, "write_csv")
    /\ pc' = "manifest"
    /\ error' = error
    /\ UNCHANGED <<params, today, dates_list, warnings, selected_currency,
                   idx, tries, rates>>

\* Lines 136-149.
WriteOutput ==
    /\ pc = "write"
    /\ IF rates # <<>>
       THEN /\ csv' = <<file_header>> \o rates
            /\ calls' = Append(calls, "write_csv")
            /\ pc' = "manifest"
            /\ error' = error
       ELSE /\ pc' = "failed"
            /\ error' = MSG_NOT_FETCHED
            /\ UNCHANGED <<csv, calls>>
    /\ UNCHANGED <<params, today, dates_list, warnings, selected_currency,
                   idx, tries, rates>>

\* Line 152.
WriteManifest ==
    /\ pc = "manifest"
    /\ calls' = Append(calls, "write_manifest")
    /\ pc' = "state"
    /\ UNCHANGED <<params, today, dates_list, warnings, error, selected_currency,
                   idx, tries, rates, csv>>

\* Line 155.
WriteStateFile ==
    /\ pc = "state"
    /\ calls' = Append(calls, "write_state_file")
    /\ pc' = "done"
    /\ UNCHANGED <<params, today, dates_list, warnings, error, selected_currency,
                   idx, tries, rates, csv>>

Next ==
    \/ CheckFileName
    \/ RunResolveDates
    \/ RunResolveCurrency
    \/ GetRatesCall
    \/ FetchFail
    \/ FetchOk
    \/ GetRatesReturn
    \/ WriteOutput
    \/ WriteManifest
    \/ WriteStateFile

Spec == Init /\ [][Next]_vars


(* ------------------------- properties checked ------------------------- *)

DateErrors == {MSG_FROM_GE_TO, MSG_FROM_FUTURE, MSG_BAD_DATES}

ValidationErrors == DateErrors \cup {MSG_NO_CURRENCY}

\* Date resolution (lines 105-118) has run, normally or by raising.
DatesStageDone == pc \notin {"start", "dates"} /\ error # MSG_NO_NAME

\* What date resolution raised (later stages overwrite error only when it
\* raised nothing).
DateError == IF error \in DateErrors THEN error ELSE NoError

\* The run is in custom-range mode with two well-formed date strings.
CustomWellFormed ==
    /\ params.dates = MODE_CUSTOM
    /\ Strptime(params.dependent_date_from).ok
    /\ Strptime(params.dependent_date_to).ok

DateFrom == Strptime(params.dependent_date_from).date
DateTo == Strptime(params.dependent_date_to).date

NoDuplicates(list) ==
    \A i, j \in 1..Len(list) : i # j => list[i] # list[j]

\* C1: from an empty list, Today resolves to [R], TodayAndYesterday to
\* [R, R-1] and Week to [R, R-1, ..., R-6] in this order, and none of the
\* three raises an error.
C1_RelativeModes ==
    DatesStageDone =>
        /\ params.dates = MODE_TODAY =>
              dates_list = <<today>> /\ DateError = NoError
        /\ params.dates = MODE_TODAY_AND_YESTERDAY =>
              dates_list = <<today, today - 1>> /\ DateError = NoError
        /\ params.dates = MODE_WEEK =>
              /\ dates_list = <<today, today - 1, today - 2, today - 3,
                                today - 4, today - 5, today - 6>>
              /\ DateError = NoError

C1_Witness ==
    DatesStageDone /\ params.dates = MODE_WEEK /\ Len(dates_list) = 7

\* C2: for from < to <= R the custom range resolves to every date of
\* [from, to] once, ascending without gaps: length (to - from).days + 1,
\* first element from, last element to.
C2_ClosedInterval ==
    (DatesStageDone /\ CustomWellFormed /\ DateFrom < DateTo /\ DateTo <= today) =>
        /\ DateError = NoError
        /\ Len(dates_list) = (DateTo - DateFrom) + 1
        /\ dates_list[1] = DateFrom
        /\ dates_list[Len(dates_list)] = DateTo
        /\ \A i \in 1..(Len(dates_list) - 1) : dates_list[i + 1] = dates_list[i] + 1

C2_Witness ==
    /\ DatesStageDone /\ CustomWellFormed
    /\ DateFrom < DateTo /\ DateTo <= today
    /\ Len(dates_list) >= 3

\* The outcome date resolution left in the state equals the outcome o of a
\* setter call.
SameOutcomeAs(o) == dates_list = o.list /\ DateError = o.raised

ClampWarned == \E i \in 1..Len(warnings) : warnings[i] = MSG_CLAMP

\* C3 as stated: for all from < to with to > R (from = R included) the
\* custom range resolves as CustomRange(R, from, R) does, and the clamp
\* warning is emitted; the warning is emitted only when to > R and never
\* comes with an error.
C3_ClampAsStated ==
    /\ (DatesStageDone /\ CustomWellFormed /\ DateFrom < DateTo /\ DateTo > today) =>
          /\ SameOutcomeAs(SetCustomDateRange(<<>>, today, DateFrom, today))
          /\ ClampWarned
    /\ (DatesStageDone /\ warnings # <<>>) =>
          (CustomWellFormed /\ DateTo > today /\ DateError = NoError)

\* C3 amended: for from < R < to the custom range resolves as
\* CustomRange(R, from, R) does, with the clamp warning; for from = R < to it
\* resolves to [R] with the clamp warning (CustomRange(R, R, R) is rejected as
\* from >= to); for R < from < to it raises the from-in-the-future error and
\* logs no warning; the warning is emitted only when to > R and never comes
\* with an error.
C3_Clamp ==
    /\ (DatesStageDone /\ CustomWellFormed /\ DateFrom < DateTo /\ DateTo > today) =>
          /\ DateFrom < today =>
                /\ SameOutcomeAs(SetCustomDateRange(<<>>, today, DateFrom, today))
                /\ dates_list[Len(dates_list)] = today
                /\ ClampWarned
          /\ DateFrom = today =>
                /\ dates_list = <<today>> /\ DateError = NoError /\ ClampWarned
                /\ SetCustomDateRange(<<>>, today, DateFrom, today).raised = MSG_FROM_GE_TO
          /\ DateFrom > today =>
                /\ dates_list = <<>> /\ DateError = MSG_FROM_FUTURE /\ ~ClampWarned
    /\ (DatesStageDone /\ warnings # <<>>) =>
          (CustomWellFormed /\ DateTo > today /\ DateError = NoError)

C3_Witness ==
    /\ DatesStageDone /\ CustomWellFormed
    /\ DateFrom < today /\ today < DateTo
    /\ ClampWarned /\ Len(dates_list) >= 2

\* C4: a custom range with from >= to, or with from > R, raises a validation
\* error that names the invalid bound (the from >= to message when both
\* hold), and no date is appended to the list.
C4_BoundsRejected ==
    (DatesStageDone /\ CustomWellFormed) =>
        /\ DateFrom >= DateTo =>
              pc = "failed" /\ error = MSG_FROM_GE_TO /\ dates_list = <<>>
        /\ (DateFrom < DateTo /\ DateFrom > today) =>
              pc = "failed" /\ error = MSG_FROM_FUTURE /\ dates_list = <<>>

C4_Witness ==
    /\ DatesStageDone /\ CustomWellFormed
    /\ DateFrom >= DateTo /\ DateFrom > today
    /\ pc = "failed" /\ error = MSG_FROM_GE_TO

\* The run of C5: custom range, from = to = reference = 2024-01-01, an output
\* name and a currency selection given.
C5_Scenario ==
    /\ params.file_name # ""
    /\ params.dates = MODE_CUSTOM
    /\ params.dependent_date_from = <<2024, 1, 1>>
    /\ params.dependent_date_to = <<2024, 1, 1>>
    /\ today = ToOrdinal(2024, 1, 1)
    /\ ~IsEmptyList(SelectedCurrency(params))

RunEnded == pc \in {"failed", "done"}

\* C5 as stated: that run, no fetch having succeeded, ends with the
\* data-empty error.
C5_DataEmptyAsStated ==
    (C5_Scenario /\ RunEnded /\ rates = <<>>) =>
        (pc = "failed" /\ error = MSG_NOT_FETCHED)

\* C5 amended: that run ends with the validation error of from >= to, raised
\* before get_rates is called; nothing is fetched and nothing is written.
C5_EqualBoundsRejected ==
    (C5_Scenario /\ RunEnded) =>
        /\ pc = "failed"
        /\ error = MSG_FROM_GE_TO
        /\ calls = <<>>
        /\ csv = <<>>

C5_Witness ==
    C5_Scenario /\ pc = "failed" /\ error = MSG_FROM_GE_TO

\* C6: a run that ends in a validation error (from >= to, from in the future,
\* malformed date string, empty explicit currency selection) has stopped
\* without calling get_rates and without writing the CSV, the manifest or
\* the state.
C6_NoFetchAfterValidationError ==
    error \in ValidationErrors =>
        /\ pc = "failed"
        /\ calls = <<>>
        /\ csv = <<>>
        /\ rates = <<>>

C6_Witness ==
    /\ pc = "failed" /\ error = MSG_NO_CURRENCY
    /\ dates_list # <<>> /\ calls = <<>>

CallOrder == <<"get_rates", "write_csv", "write_manifest", "write_state_file">>

\* C7: with no rows the run fails with "Data were not fetched!" and writes
\* neither CSV nor manifest nor state; with rows the CSV is written once, the
\* header row followed by all rows, then the manifest, then the state; a
\* written table is never empty.
C7_OutputNeverEmpty ==
    /\ Len(calls) <= Len(CallOrder) /\ calls = SubSeq(CallOrder, 1, Len(calls))
    /\ pc \in {"manifest", "state", "done"} =>
          /\ rates # <<>>
          /\ csv = <<file_header>> \o rates
          /\ Len(csv) >= 2
          /\ Len(calls) >= 2
    /\ pc = "done" => calls = CallOrder
    /\ (pc = "failed" /\ calls # <<>>) =>
          /\ rates = <<>>
          /\ error = MSG_NOT_FETCHED
          /\ calls = <<"get_rates">>
    /\ error = MSG_NOT_FETCHED => (pc = "failed" /\ rates = <<>>)
    /\ csv = <<>> <=> Len(calls) < 2

C7_Witness ==
    pc = "done" /\ Len(csv) >= 3 /\ calls = CallOrder

\* C8: in custom-range mode a date string that is no calendar date ends the
\* run with "Dates not specified correctly for custom date range!", a message
\* of its own; a bounds error of well-formed dates keeps its own message.
C8_MalformedDistinct ==
    /\ MSG_BAD_DATES \notin {MSG_FROM_GE_TO, MSG_FROM_FUTURE}
    /\ (DatesStageDone /\ params.dates = MODE_CUSTOM) =>
          /\ ~CustomWellFormed =>
                pc = "failed" /\ error = MSG_BAD_DATES /\ dates_list = <<>>
          /\ CustomWellFormed => error # MSG_BAD_DATES
          /\ (CustomWellFormed /\ (DateFrom >= DateTo \/ DateFrom > today)) =>
                pc = "failed" /\ error \in {MSG_FROM_GE_TO, MSG_FROM_FUTURE}

C8_Witness ==
    /\ DatesStageDone /\ CustomWellFormed
    /\ pc = "failed" /\ error = MSG_FROM_FUTURE

\* C9 as stated: whatever the value of the date-selection parameter, when
\* date resolution completes without raising, the list handed to the fetch
\* step is non-empty and has no duplicate.
C9_DatesNonEmptyAsStated ==
    (DatesStageDone /\ DateError = NoError) =>
        (dates_list # <<>> /\ NoDuplicates(dates_list))

\* The codes whose select_curr_<CODE> parameter is truthy.
FlaggedCodes ==
    {c \in {USD, EUR} : Truthy(params.select[Text_select_curr \o <<"_">> \o c])}

CurrencyStageDone ==
    \/ pc \in {"fetch", "fetching", "write", "manifest", "state", "done"}
    \/ pc = "failed" /\ error \in {MSG_NO_CURRENCY, MSG_NOT_FETCHED}

\* C10: with an explicit selection the resolved list holds exactly the codes
\* of the truthy select_curr_<CODE> parameters, and "No currency was
\* selected!" is raised iff that list is empty; with "All" the error is never
\* raised whatever the flags are, and None (no filter) is handed on.
C10_CurrencyResolution ==
    CurrencyStageDone =>
        /\ params.currency # "All" =>
              /\ ~selected_currency.none
              /\ {selected_currency.codes[i] : i \in 1..Len(selected_currency.codes)}
                    = FlaggedCodes
              /\ Len(selected_currency.codes) = Cardinality(FlaggedCodes)
              /\ error = MSG_NO_CURRENCY <=> FlaggedCodes = {}
        /\ params.currency = "All" =>
              /\ selected_currency.none
              /\ error # MSG_NO_CURRENCY

C10_Witness ==
    /\ pc = "fetch" /\ params.currency # "All"
    /\ selected_currency.codes = <<EUR>>
    /\ params.select[Key_select_curr_USD] = "None"

====
